---- MODULE Spec2Model ----
(***************************************************************************)
(* Synthetic multi-slice CT generation and PACS transmission pipeline.     *)
(*                                                                         *)
(* Three orchestrators are modelled, one per script:                       *)
(*   "create"  create-multislice-ct.py  (C-STORE, 100 slices)              *)
(*   "upload"  upload-multislice-ct.py  (REST upload, 100 slices)          *)
(*   "sender"  dicom-test-sender.py     (C-ECHO then C-STORE, 3 studies)   *)
(* Every function is followed statement by statement; pc is the position   *)
(* of the single thread of control.                                        *)
(***************************************************************************)
EXTENDS Integers, Sequences, FiniteSets, TLC

VARIABLES
    prog,          \* which script is running
    pc,            \* position of the thread of control
    total,         \* NUM_SLICES / len(test_studies) of the running script
    slice_num,     \* loop variable (slice_num, or i in dicom-test-sender.py)
    successful,    \* main: successful
    failed,        \* main: failed
    assoc,         \* state of the association held by the local `assoc`
    status,        \* the status Dataset of the last DIMSE/HTTP reply
    ret,           \* return value of the last store / echo / upload call
    verdict,       \* which completion message main printed
    exit_code,     \* process exit status (-1 while running)
    leaked,        \* an operation returned with its association still established
    echoCalls,     \* number of calls of test_orthanc_echo
    echoRet,       \* what test_orthanc_echo returned ("unset" before it returns)
    stored,        \* ordinals for which the store/upload function was called
    storeReturns,  \* number of store/upload calls that have returned
    storeTrue,     \* number of store/upload calls that returned True
    paused,        \* number of pacing pauses (time.sleep) taken in the loop
    study_uid,     \* main: study_uid (0 before it is generated)
    series_uid,    \* main: series_uid (0 before it is generated)
    uidNext,       \* the value the next generate_uid() call returns
    ds,            \* the dataset of the current slice (dicom_slice / dicom_dataset)
    prevDs,        \* the dataset of the slice before the current one
    sops,          \* SOPInstanceUIDs of the slices created so far
    buildFailed,   \* ordinal whose synthesis/encoding raised (0 if none)
    image_size,    \* the image_size argument of create_ct_slice
    geom,          \* radius, masks and rib centres create_ct_slice computed
    prevRadius,    \* radius (numerator) of the slice built before, 0 if none
    pixel,         \* one pixel of pixel_array: column x, row y and its value
    timedOut,      \* the last network call of the current operation timed out
    tmpfiles,      \* ordinals whose slice_NNN.dcm exists in the temporary directory
    response_text, \* the argument of parse_ai_response
    parse_out,     \* what parse_ai_response did: pending, returned a dict, raised
    test_idx,      \* run_all_tests: position in `tests` (1..7), 0 before the loop
    test_ret,      \* what the test function just called did: True, False, raised
    passed,        \* run_all_tests: passed
    failed_tests,  \* self.failed_tests: the test of each entry, in order
    test_results,  \* self.test_results: the test of each entry, in order
    created_machine_id, \* self.created_machine_id ("None" or the ID)
    sent,          \* the HTTP requests sent so far: who sent which method
    results,       \* the dict returned by run_all_tests
    machine_status,\* the status line printed by main
    raised,        \* the exception that is propagating out of main's try block
    cleanups,      \* number of calls of cleanup
    created_on_server  \* the backend answered the create request with 201

vars == <<prog, pc, total, slice_num, successful, failed, assoc, status, ret,
          verdict, exit_code, leaked, echoCalls, echoRet, stored,
          storeReturns, storeTrue, paused, study_uid, series_uid, uidNext,
          ds, prevDs, sops, buildFailed, image_size, geom, prevRadius,
          pixel, timedOut, tmpfiles, response_text, parse_out, test_idx,
          test_ret, passed, failed_tests, test_results, created_machine_id,
          sent, results, machine_status, raised, cleanups,
          created_on_server>>

----------------------------------------------------------------------------
(* Program constants *)

NUM_SLICES == 100

NUM_STUDIES == 3

BATCH_CREATE == 10

BATCH_UPLOAD == 20

HTTP_OK == 200

STATUS_SUCCESS == 0

Programs == {"create", "upload", "sender"}

\* DIMSE status codes a peer can reply with: Success, Refused: Out of
\* Resources (0xA700), Warning: Coercion of Data Elements (0xB000),
\* Error: Cannot Understand (0xC000).
StatusReplies == {0, 42752, 45056, 49152}

\* HTTP status codes the backend can reply with.
HttpReplies == {200, 201, 400, 500}

NumSlices(p) == IF p = "sender" THEN NUM_STUDIES ELSE NUM_SLICES

----------------------------------------------------------------------------
(* Python truthiness of a status Dataset: an empty Dataset is falsy.  A     *)
(* Dataset is modelled as the set of its Status values: {} or {code}.       *)

Truthy(st) == st # {}

\* The try blocks: the sites whose exceptions are caught by `except Exception`.
InTry_echo_send_outside(site) ==
    site \in {"store_associate", "store_send", "store_release",
              "echo_associate", "echo_release",
              "upload_open", "upload_post"}

InTry(site) ==
    site \in {"store_associate", "store_send", "store_release",
              "echo_associate", "echo_send", "echo_release",
              "upload_open", "upload_post"}

\* Where control goes when `site` raises: the function's handler when the
\* site is inside its try block, otherwise the exception leaves main.
Handler_network_uncaught(site) ==
    IF ~InTry(site) \/ site \in {"store_associate", "store_send", "upload_post"}
    THEN "crashed"
    ELSE IF site \in {"store_release"} THEN "store_except"
    ELSE IF site \in {"echo_associate", "echo_send", "echo_release"}
         THEN "echo_except"
    ELSE "upload_except"

Handler(site) ==
    IF ~InTry(site) THEN "crashed"
    ELSE IF site \in {"store_associate", "store_send", "store_release"}
         THEN "store_except"
    ELSE IF site \in {"echo_associate", "echo_send", "echo_release"}
         THEN "echo_except"
    ELSE "upload_except"

----------------------------------------------------------------------------
(* Identifiers and slice metadata.                                          *)
(* generate_uid() draws a UUID-based identifier; it is modelled as a source  *)
(* of values never returned before: the natural numbers 1, 2, 3, ... in the  *)
(* order of the calls.  Lengths are in tenths of a millimetre (2.0 mm = 20,  *)
(* 0.7 mm = 7).                                                              *)

IMAGE_SIZE == <<512, 512>>

SLICE_THICKNESS == 20

SLICE_SPACING == 20

\* image_size of the three test_studies of dicom-test-sender.py
StudySizes == <<(<<512, 512>>), (<<256, 256>>), (<<2048, 2048>>)>>

\* No dataset built yet.
NoDs == [none |-> TRUE]

\* `sop_uid = generate_uid()`: the item identifier is a fresh identifier.
SliceSopUid_series(study, series, fresh) == series

SliceSopUid(study, series, fresh) == fresh

\* `ds.StudyInstanceUID = study_uid`, `ds.SeriesInstanceUID = series_uid`:
\* the identifiers main generated once, passed in as arguments.
SliceStudyUid_fresh(study, fresh) == fresh + 1

SliceStudyUid(study, fresh) == study

SliceSeriesUid(series, fresh) == series

\* `ds.SliceLocation = slice_number * 2.0` and the third component of
\* `ds.ImagePositionPatient = [0, 0, slice_number * 2.0]`
SliceLocation_zero_based(i) == (i - 1) * SLICE_SPACING

SliceLocation(i) == i * SLICE_SPACING

\* create_ct_slice: the identity and geometry fields of the dataset.  The
\* function calls generate_uid() twice: sop_uid, then ImplementationClassUID.
CtSlice(study, series, i, n, size, fresh) ==
    [MediaStorageSOPInstanceUID |-> SliceSopUid(study, series, fresh),
     ImplementationClassUID     |-> fresh + 1,
     StudyInstanceUID           |-> SliceStudyUid(study, fresh),
     SeriesInstanceUID          |-> SliceSeriesUid(series, fresh),
     SeriesNumber               |-> 1,
     SOPInstanceUID             |-> SliceSopUid(study, series, fresh),
     InstanceNumber             |-> i,
     SamplesPerPixel            |-> 1,
     Rows                       |-> size[1],
     Columns                    |-> size[2],
     BitsAllocated              |-> 16,
     BitsStored                 |-> 16,
     HighBit                    |-> 15,
     PixelRepresentation        |-> 1,
     RescaleIntercept           |-> -1024,
     RescaleSlope               |-> 1,
     SliceThickness             |-> SLICE_THICKNESS,
     SliceLocation              |-> SliceLocation(i),
     ImagePositionPatient       |-> <<0, 0, SliceLocation(i)>>,
     ImageOrientationPatient    |-> <<1, 0, 0, 0, 1, 0>>,
     PixelSpacing               |-> <<7, 7>>]

\* create_test_dicom (dicom-test-sender.py): every study gets its own
\* study_uid, series_uid, sop_uid and ImplementationClassUID, in this order;
\* there are no position fields.
TestDicom(size, fresh) ==
    [MediaStorageSOPInstanceUID |-> fresh + 2,
     ImplementationClassUID     |-> fresh + 3,
     StudyInstanceUID           |-> fresh,
     SeriesInstanceUID          |-> fresh + 1,
     SeriesNumber               |-> 1,
     SOPInstanceUID             |-> fresh + 2,
     InstanceNumber             |-> 1,
     SamplesPerPixel            |-> 1,
     Rows                       |-> size[1],
     Columns                    |-> size[2],
     BitsAllocated              |-> 16,
     BitsStored                 |-> 16,
     HighBit                    |-> 15,
     PixelRepresentation        |-> 0]

----------------------------------------------------------------------------
(* The pixel data of create_ct_slice.                                       *)
(* radius = 150 + (slice_number / total_slices) * 50 is the rational         *)
(* RadiusNum / total_slices.  The masks compare the integer squared          *)
(* distance of a pixel with radius**2 and (radius * 0.7)**2, so a mask is    *)
(* the set of pixels whose squared distance is at most the floor of that     *)
(* threshold.  The code computes in binary floating point: where the exact   *)
(* threshold, or the exact product under int(), is an integer, the rounded   *)
(* float may fall just below it, and the result is then one less; each such  *)
(* tie is a choice between the two results.                                  *)

BASE_RADIUS == 150

RADIUS_RANGE == 50

NUM_RIBS == 6

RIB_DISK == 100

\* `radius = 150 + (slice_number / total_slices) * 50`, times total_slices
RadiusNum_shrinking(i, n) == BASE_RADIUS * n - RADIUS_RANGE * i

RadiusNum_zero_based(i, n) == BASE_RADIUS * n + RADIUS_RANGE * (i - 1)

RadiusNum(i, n) == BASE_RADIUS * n + RADIUS_RANGE * i

\* floor(num / den) for num >= 0, or one less at a tie that rounds down.
FloorTie(num, den, down) ==
    IF num % den = 0 /\ down /\ num > 0 THEN (num \div den) - 1
    ELSE num \div den

\* floor(sqrt(num / den)) for num >= 0
FloorSqrt(num, den) ==
    CHOOSE m \in 0..512 : m * m * den <= num /\ (m + 1) * (m + 1) * den > num

\* `mask = ((x - center_x)**2 + (y - center_y)**2) <= radius**2`:
\* the largest squared distance inside the body boundary.
MaskMax(i, n, down) == FloorTie(RadiusNum(i, n) * RadiusNum(i, n), n * n, down)

\* `inner_radius = radius * 0.7` and the inner mask: the largest squared
\* distance inside the inner circle ((0.7 * r)**2 = 49 r**2 / 100).
InnerMax(i, n, down) ==
    FloorTie(49 * ((RadiusNum(i, n) \div 10) * (RadiusNum(i, n) \div 10)),
             n * n, down)

\* cos and sin of `angle = (k / num_ribs) * 2 * pi`, k = 0..5, as
\* <<sign, halves>> of 1 (cos) and <<sign, is sqrt(3)/2>> (sin).
RibCos == <<(<<1, 2>>), (<<1, 1>>), (<<-1, 1>>), (<<-1, 2>>), (<<-1, 1>>), (<<1, 1>>)>>

RibSin == <<0, 1, 1, 0, -1, -1>>

\* `int(radius * 0.85 * np.cos(angle))`: radius * 0.85 = 17 RadiusNum / (20 n),
\* times 1 or 1/2, truncated toward zero.
RibDx(i, n, k, down) ==
    RibCos[k + 1][1] *
        FloorTie(17 * RadiusNum(i, n) * RibCos[k + 1][2], 40 * n, down)

\* `int(radius * 0.85 * np.sin(angle))`: 0, or sqrt(3)/2 of radius * 0.85
\* truncated toward zero (never a tie: the product is irrational).
RibDy(i, n, k) ==
    RibSin[k + 1] *
        FloorSqrt(3 * 289 * ((RadiusNum(i, n) \div 10) * (RadiusNum(i, n) \div 10)),
                  16 * n * n)

\* What create_ct_slice derives from its arguments before it fills the
\* pixels: the radius, the two masks and the six rib centres.
Geometry(i, n, size, tm, ti, tr) ==
    [radius   |-> RadiusNum(i, n),
     den      |-> n,
     center_y |-> size[1] \div 2,
     center_x |-> size[2] \div 2,
     maskMax  |-> MaskMax(i, n, tm),
     innerMax |-> InnerMax(i, n, ti),
     ribs     |-> [k \in 1..NUM_RIBS |->
                     <<(size[2] \div 2) + RibDx(i, n, k - 1, tr),
                       (size[1] \div 2) + RibDy(i, n, k - 1)>>]]

NoGeom == [none |-> TRUE]

NoPixel == [none |-> TRUE]

\* np.random.randint(lo, hi) draws from lo..hi-1; the two ends are drawn.
Randint(lo, hi) == {lo, hi - 1}

\* Storing into the np.int16 array keeps the low 16 bits, signed.
Int16(v) == ((v + 32768) % 65536) - 32768

Dist2(x, y, cx, cy) == (x - cx) * (x - cx) + (y - cy) * (y - cy)

InBody(g, x, y) == Dist2(x, y, g.center_x, g.center_y) <= g.maskMax

InInner(g, x, y) == Dist2(x, y, g.center_x, g.center_y) <= g.innerMax

InRib(g, k, x, y) == Dist2(x, y, g.ribs[k][1], g.ribs[k][2]) <= RIB_DISK

\* `pixel_array[inner_mask] = -800 + np.random.randint(-50, 50, ...)`
InnerJitter == Randint(-50, 50)

InnerValue(j) == -800 + j

\* `pixel_array[outer_mask] = 50 + np.random.randint(-50, 150, ...)`
OuterJitter == Randint(-50, 150)

OuterValue(j) == 50 + j

\* `pixel_array[rib_mask] = 500 + np.random.randint(-100, 300, ...)`
RibJitter == Randint(-100, 300)

RibValue(j) == 500 + j

\* The assignments to pixel_array[y, x] in the order of the code: base
\* tissue, inner circle, outer ring, the six ribs, outside the body.
RECURSIVE AfterRibs(_, _, _, _, _, _)
AfterRibs(g, x, y, k, jr, v) ==
    IF k > NUM_RIBS THEN v
    ELSE AfterRibs(g, x, y, k + 1, jr,
                   IF InRib(g, k, x, y) THEN Int16(RibValue(jr)) ELSE v)

PixelValue(g, x, y, ji, jo, jr) ==
    LET base  == Int16(-500)
        inner == IF InInner(g, x, y) THEN Int16(InnerValue(ji)) ELSE base
        outer == IF InBody(g, x, y) /\ ~InInner(g, x, y)
                 THEN Int16(OuterValue(jo)) ELSE inner
        ribs  == AfterRibs(g, x, y, 1, jr, outer)
    IN  IF ~InBody(g, x, y) THEN Int16(-1000) ELSE ribs

----------------------------------------------------------------------------
(* parse_ai_response, ai-detection-service/main.py.                         *)
(* A response text is a sequence of pieces: "{" and "}" are the two brace   *)
(* characters, "S" is the text of the four members "summary", "findings",   *)
(* "recommendations" and "ai_confidence" as they stand between the braces   *)
(* of a JSON object, "m" is the text of one member "note", and "x" is a run *)
(* of prose without braces.  An argument that is no string is None or a     *)
(* number.                                                                  *)

Pieces == {"{", "}", "S", "m", "x"}

\* Number of characters of a piece.
PieceLen(c) ==
    CASE c = "{" -> 1
      [] c = "}" -> 1
      [] c = "S" -> 90
      [] c = "m" -> 11
      [] c = "x" -> 120

RECURSIVE TextLen(_)
TextLen(t) == IF t = <<>> THEN 0 ELSE PieceLen(Head(t)) + TextLen(Tail(t))

SUMMARY_CHARS == 200

NoText == [type |-> "unset"]

Str(t) == [type |-> "str", text |-> t]

Pending == [state |-> "pending"]

Returned(v) == [state |-> "returned", value |-> v]

Raised == [state |-> "raised"]

\* `re.search(r'\{.*\}', response_text, re.DOTALL)`: the leftmost "{" and,
\* `.*` being greedy, the last "}" after it; <<>> when there is no match.
JsonMatch(t) ==
    LET opens == {i \in 1..Len(t) : t[i] = "{"}
        first == CHOOSE i \in opens : \A j \in opens : i <= j
        closes == {i \in 1..Len(t) : t[i] = "}" /\ i > first}
    IN  IF opens = {} THEN <<>>
        ELSE IF closes = {} THEN <<>>
        ELSE SubSeq(t, first, CHOOSE i \in closes : \A j \in closes : i >= j)

\* json.loads on a matched span: the span is a JSON document when it is an
\* object with no member, with the member "note", or with the four members.
JsonLoadsOk(span) ==
    span \in {<<"{", "}">>, <<"{", "m", "}">>, <<"{", "S", "}">>}

JsonLoads(span) ==
    CASE span = <<"{", "}">>      -> <<>>
      [] span = <<"{", "m", "}">> -> [note |-> "n"]
      [] span = <<"{", "S", "}">> ->
            [summary |-> "s", findings |-> <<>>, recommendations |-> <<>>,
             ai_confidence |-> "high"]

\* `response_text[:200]`: the text and how many of its characters are kept.
Prefix(t) == [of |-> t, chars |-> IF TextLen(t) > SUMMARY_CHARS
                                  THEN SUMMARY_CHARS ELSE TextLen(t)]

Literal(str) == [literal |-> str]

\* The dict returned when no JSON is found in the text.
GeneralFallback(t) ==
    [summary |-> [text |-> Prefix(t), ellipsis |-> TextLen(t) > SUMMARY_CHARS],
     findings |-> << [category |-> "general", description |-> t,
                      location |-> "Not specified", confidence |-> "moderate",
                      severity |-> "low"] >>,
     recommendations |-> <<"Review with radiologist",
                           "Clinical correlation recommended">>,
     ai_confidence |-> "moderate"]

\* The dict returned by the except branch;
\* `response_text[:200] if response_text else "Analysis completed"`.
LowFallback(summary) ==
    [summary |-> summary,
     findings |-> <<>>,
     recommendations |-> <<"Manual review recommended">>,
     ai_confidence |-> "low"]

ParseAiResponse(r) ==
    IF r.type = "str"
    THEN IF JsonMatch(r.text) # <<>>
         THEN IF JsonLoadsOk(JsonMatch(r.text))
              THEN Returned(JsonLoads(JsonMatch(r.text)))
              ELSE Returned(LowFallback(
                       IF r.text # <<>>
                       THEN [text |-> Prefix(r.text), ellipsis |-> FALSE]
                       ELSE Literal("Analysis completed")))
         ELSE Returned(GeneralFallback(r.text))
    ELSE IF r.type = "None"
    THEN \* re.search raises TypeError; None is falsy
         Returned(LowFallback(Literal("Analysis completed")))
    ELSE \* a number: re.search raises TypeError, and so does the slice
         \* response_text[:200] in the except branch
         Raised

----------------------------------------------------------------------------
(* MachineManagementTestSuite, machine_test.py.                             *)

\* The entries of `tests` in run_all_tests, in order.
Tests == <<"health", "organization", "create", "get", "qr", "dicom", "delete">>

NoMachine == "None"

MACHINE_ID == "M1"

NoResults == [none |-> TRUE]

\* The variables of the test suite after __init__.
SuiteIdle ==
    /\ test_idx = 0
    /\ test_ret = "unset"
    /\ passed = 0
    /\ failed_tests = <<>>
    /\ test_results = <<>>
    /\ created_machine_id = NoMachine
    /\ sent = <<>>
    /\ results = NoResults
    /\ machine_status = "none"
    /\ raised = "none"
    /\ cleanups = 0
    /\ created_on_server = FALSE

\* log_test_result: every call appends to self.test_results, a call with
\* success = False appends to self.failed_tests as well.
LogFailed_always(log, test, success) == Append(log, test)

LogFailed(log, test, success) == IF success THEN log ELSE Append(log, test)

\* `if not self.created_machine_id:` at the head of the QR-code, the
\* DICOM-connection and the delete test.
HasMachineId_unchecked(id) == TRUE

HasMachineId(id) == id # NoMachine

\* test_delete_machine after a successful delete:
\* `self.created_machine_id = None`
AfterDelete(id) == NoMachine

\* One HTTP request, by the test (or "cleanup") that sends it.
Request(by, method) == [by |-> by, method |-> method]

----------------------------------------------------------------------------
Init ==
    /\ prog \in Programs
    /\ pc = "main_start"
    /\ total = NumSlices(prog)
    /\ slice_num = 0
    /\ successful = 0
    /\ failed = 0
    /\ assoc = "none"
    /\ status = {}
    /\ ret = FALSE
    /\ verdict = "none"
    /\ exit_code = -1
    /\ leaked = FALSE
    /\ echoCalls = 0
    /\ echoRet = "unset"
    /\ stored = <<>>
    /\ storeReturns = 0
    /\ storeTrue = 0
    /\ paused = 0
    /\ study_uid = 0
    /\ series_uid = 0
    /\ uidNext = 1
    /\ ds = NoDs
    /\ prevDs = NoDs
    /\ sops = <<>>
    /\ buildFailed = 0
    /\ image_size = IMAGE_SIZE
    /\ geom = NoGeom
    /\ prevRadius = 0
    /\ pixel = NoPixel
    /\ timedOut = FALSE
    /\ tmpfiles = {}
    /\ response_text = NoText
    /\ parse_out = Pending
    /\ SuiteIdle

io == <<timedOut, tmpfiles>>
ai == <<response_text, parse_out>>
suite == <<test_idx, test_ret, passed, failed_tests, test_results, created_machine_id,
           sent, results, machine_status, raised, cleanups,
          created_on_server>>
ext == <<ai, suite>>
pix == <<image_size, geom, prevRadius, pixel>>
synth == <<study_uid, series_uid, uidNext, ds, prevDs, sops, buildFailed>>
ctrs == <<successful, failed>>
ghost == <<echoCalls, echoRet, stored, storeReturns, storeTrue, paused>>
fixed == <<prog, total>>
outcome == <<verdict, exit_code>>

----------------------------------------------------------------------------
(* main, up to the loop *)

\* dicom-test-sender.py main: call test_orthanc_echo first.
MainCallEcho ==
    /\ pc = "main_start"
    /\ prog = "sender"
    /\ pc' = "echo_associate"
    /\ echoCalls' = echoCalls + 1
    /\ assoc' = "none"
    /\ status' = {}
    /\ timedOut' = FALSE
    /\ UNCHANGED <<tmpfiles, pix, synth, ext, fixed, slice_num, ctrs, ret, outcome, leaked,
                   echoRet, stored, storeReturns, storeTrue, paused>>

\* dicom-test-sender.py main: `if not test_orthanc_echo(...): sys.exit(1)`.
MainAfterEchoGo_noabort(r) == TRUE

MainAfterEchoGo(r) == r

MainAfterEcho ==
    /\ pc = "main_after_echo"
    /\ IF MainAfterEchoGo(ret)
       THEN /\ pc' = "loop_head"
            /\ slice_num' = 1
            /\ successful' = 0
            /\ failed' = 0
            /\ UNCHANGED exit_code
       ELSE /\ pc' = "exited"
            /\ exit_code' = 1
            /\ UNCHANGED <<slice_num, successful, failed>>
    /\ UNCHANGED <<io, pix, synth, ext, fixed, assoc, status, ret, verdict, leaked, ghost>>

\* create-/upload-multislice-ct.py main: no connectivity check; the UIDs are
\* generated, the counters are zeroed and the loop starts.
MainStartLoop ==
    /\ pc = "main_start"
    /\ prog \in {"create", "upload"}
    /\ study_uid' = uidNext
    /\ series_uid' = uidNext + 1
    /\ uidNext' = uidNext + 2
    /\ pc' = "loop_head"
    /\ slice_num' = 1
    /\ successful' = 0
    /\ failed' = 0
    /\ UNCHANGED <<io, pix, ds, prevDs, sops, buildFailed>>
    /\ UNCHANGED <<ext, fixed, assoc, status, ret, outcome, leaked, ghost>>

----------------------------------------------------------------------------
(* The association object.  is_established is assoc = "established"; a      *)
(* rejected or aborted association and a released one are not established.  *)

IsEstablished(a) == a = "established"

\* ae.associate(...): the peer accepts or rejects/aborts the negotiation.
AssociateOutcomes == {"established", "rejected"}

\* ae.associate(...) when the peer does not answer: AE() keeps the timeouts
\* of the library, the negotiation is given up and the association comes
\* back aborted (not established); nothing is raised.
AssociateTimeout == "aborted"

\* assoc.release(): releases an established association, no-op otherwise.
Release(a) == IF IsEstablished(a) THEN "released" ELSE a

\* Returning from test_orthanc_echo / send_dicom_to_orthanc: the local
\* `assoc` goes out of scope; an association that is still established then
\* stays open with nobody left to release it.
LeakOnReturn(a) == IsEstablished(a)

----------------------------------------------------------------------------
(* test_orthanc_echo, dicom-test-sender.py *)

\* `assoc = ae.associate(...)`
EchoAssociate ==
    /\ pc = "echo_associate"
    /\ \/ /\ \E a \in AssociateOutcomes : assoc' = a
          /\ pc' = "echo_check_assoc"
          /\ UNCHANGED timedOut
       \/ /\ assoc' = AssociateTimeout
          /\ timedOut' = TRUE
          /\ pc' = "echo_check_assoc"
       \/ /\ pc' = Handler("echo_associate")
          /\ UNCHANGED <<assoc, timedOut>>
    /\ UNCHANGED <<tmpfiles, pix, synth, ext, fixed, slice_num, ctrs, status, ret, outcome, leaked,
                   ghost>>

\* `if assoc.is_established:` ... `else: return False`
EchoCheckAssoc ==
    /\ pc = "echo_check_assoc"
    /\ IF IsEstablished(assoc)
       THEN pc' = "echo_send" /\ UNCHANGED ret
       ELSE pc' = "echo_return" /\ ret' = FALSE
    /\ UNCHANGED <<io, pix, synth, ext, fixed, slice_num, ctrs, assoc, status, outcome, leaked, ghost>>

\* `status = assoc.send_c_echo()`: a reply with a status, no reply (empty
\* Dataset, the association is aborted: the peer closed the connection or
\* the reply did not come within the timeout), or an exception raised with the
\* association still established (no accepted presentation context) or
\* already gone (peer abort).
EchoSend ==
    /\ pc = "echo_send"
    /\ \/ /\ \E c \in StatusReplies : status' = {c}
          /\ pc' = "echo_release"
          /\ UNCHANGED <<assoc, timedOut>>
       \/ /\ status' = {}
          /\ assoc' = "aborted"
          /\ \E t \in BOOLEAN : timedOut' = t
          /\ pc' = "echo_release"
       \/ /\ pc' = Handler("echo_send")
          /\ \E a \in {"established", "aborted"} : assoc' = a
          /\ UNCHANGED <<status, timedOut>>
    /\ UNCHANGED <<tmpfiles, pix, synth, ext, fixed, slice_num, ctrs, ret, outcome, leaked, ghost>>

\* `assoc.release()`
EchoRelease ==
    /\ pc = "echo_release"
    /\ assoc' = Release(assoc)
    /\ pc' = "echo_check_status"
    /\ UNCHANGED <<io, pix, synth, ext, fixed, slice_num, ctrs, status, ret, outcome, leaked, ghost>>

\* `if status: return True else: return False`
EchoResult(st) == Truthy(st)

EchoCheckStatus ==
    /\ pc = "echo_check_status"
    /\ ret' = EchoResult(status)
    /\ pc' = "echo_return"
    /\ UNCHANGED <<io, pix, synth, ext, fixed, slice_num, ctrs, assoc, status, outcome, leaked, ghost>>

\* `except Exception as e: ... return False`
EchoExcept ==
    /\ pc = "echo_except"
    /\ ret' = FALSE
    /\ pc' = "echo_return"
    /\ UNCHANGED <<io, pix, synth, ext, fixed, slice_num, ctrs, assoc, status, outcome, leaked, ghost>>

\* The return to main.
EchoReturn ==
    /\ pc = "echo_return"
    /\ leaked' = (leaked \/ LeakOnReturn(assoc))
    /\ echoRet' = IF ret THEN "true" ELSE "false"
    /\ pc' = "main_after_echo"
    /\ UNCHANGED <<io, pix, synth, ext, fixed, slice_num, ctrs, assoc, status, ret, outcome,
                   echoCalls, stored, storeReturns, storeTrue, paused>>

----------------------------------------------------------------------------
(* The loop of main *)

\* `for slice_num in range(1, NUM_SLICES + 1)` / `for i, study_config in
\* enumerate(test_studies, 1)`: next iteration or loop exit.
LoopContinues_short(i, n) == i < n

LoopContinues(i, n) == i <= n

LoopHead ==
    /\ pc = "loop_head"
    /\ pc' = IF LoopContinues(slice_num, total) THEN "create_slice" ELSE "summary"
    /\ tmpfiles' = IF LoopContinues(slice_num, total) THEN tmpfiles ELSE {}
    /\ UNCHANGED <<timedOut, pix, synth, ext, fixed, slice_num, ctrs, assoc, status, ret, outcome,
                   leaked, ghost>>

\* `dicom_slice = create_ct_slice(...)` / `create_test_dicom(**study_config)`;
\* the REST uploader then saves the slice to a temporary file.
\* The call is not inside any try block of main: an error raised while
\* the slice is built ends main with a traceback (exit status 1).
CreateSlice ==
    /\ pc = "create_slice"
    /\ \/ /\ ds' = IF prog = "sender"
                   THEN TestDicom(StudySizes[slice_num], uidNext)
                   ELSE CtSlice(study_uid, series_uid, slice_num, total,
                                IMAGE_SIZE, uidNext)
          /\ uidNext' = uidNext + (IF prog = "sender" THEN 4 ELSE 2)
          /\ prevDs' = ds
          /\ sops' = Append(sops, ds'.SOPInstanceUID)
          /\ pc' = IF prog = "upload" THEN "save_file" ELSE "call_store"
          /\ UNCHANGED <<buildFailed, exit_code, tmpfiles>>
       \/ /\ pc' = Handler("create_slice")
          /\ buildFailed' = slice_num
          /\ exit_code' = 1
          /\ tmpfiles' = {}
          /\ UNCHANGED <<uidNext, ds, prevDs, sops>>
    /\ UNCHANGED <<timedOut, pix, study_uid, series_uid, verdict>>
    /\ UNCHANGED <<ext, fixed, slice_num, ctrs, assoc, status, ret, leaked, ghost>>

\* `dicom_slice.save_as(temp_file)`, not inside any try block of main
\* either: the file slice_NNN.dcm is written into the temporary directory,
\* or the write raises and ends main.  The directory and the files in it are
\* removed when `with tempfile.TemporaryDirectory()` is left, normally or by
\* an exception.
SaveFile ==
    /\ pc = "save_file"
    /\ \/ /\ pc' = "call_store"
          /\ tmpfiles' = tmpfiles \cup {slice_num}
          /\ UNCHANGED <<buildFailed, exit_code>>
       \/ /\ pc' = Handler("save_file")
          /\ buildFailed' = slice_num
          /\ exit_code' = 1
          /\ tmpfiles' = {}
    /\ UNCHANGED <<timedOut, pix, study_uid, series_uid, uidNext, ds, prevDs, sops, verdict>>
    /\ UNCHANGED <<ext, fixed, slice_num, ctrs, assoc, status, ret, leaked, ghost>>

\* `if send_dicom_to_orthanc(...)` / `if upload_dicom_to_backend(...)`: the
\* call.  send_dicom_to_orthanc builds a new AE and a new association.
CallStore ==
    /\ pc = "call_store"
    /\ stored' = Append(stored, slice_num)
    /\ assoc' = "none"
    /\ status' = {}
    /\ pc' = IF prog = "upload" THEN "upload_open" ELSE "store_associate"
    /\ timedOut' = FALSE
    /\ UNCHANGED <<tmpfiles, pix, synth, ext, fixed, slice_num, ctrs, ret, outcome, leaked,
                   echoCalls, echoRet, storeReturns, storeTrue, paused>>

----------------------------------------------------------------------------
(* send_dicom_to_orthanc, create-multislice-ct.py and dicom-test-sender.py *)

\* `assoc = ae.associate(host, port, ae_title=orthanc_aet)`
StoreAssociate ==
    /\ pc = "store_associate"
    /\ \/ /\ \E a \in AssociateOutcomes : assoc' = a
          /\ pc' = "store_check_assoc"
          /\ UNCHANGED timedOut
       \/ /\ assoc' = AssociateTimeout
          /\ timedOut' = TRUE
          /\ pc' = "store_check_assoc"
       \/ /\ pc' = Handler("store_associate")
          /\ UNCHANGED <<assoc, timedOut>>
    /\ UNCHANGED <<tmpfiles, pix, synth, ext, fixed, slice_num, ctrs, status, ret, outcome, leaked,
                   ghost>>

\* `if assoc.is_established:` ... `else: return False`
StoreCheckAssoc ==
    /\ pc = "store_check_assoc"
    /\ IF IsEstablished(assoc)
       THEN pc' = "store_send" /\ UNCHANGED ret
       ELSE pc' = "store_return" /\ ret' = FALSE
    /\ UNCHANGED <<io, pix, synth, ext, fixed, slice_num, ctrs, assoc, status, outcome, leaked, ghost>>

\* After send_c_store: create-multislice-ct.py releases and then tests the
\* status; dicom-test-sender.py tests the status and then releases.
AfterSend(p) == IF p = "create" THEN "store_release" ELSE "store_check_status"

AfterRelease(p) == IF p = "create" THEN "store_check_status" ELSE "store_return"

AfterCheckStatus(p) == IF p = "create" THEN "store_return" ELSE "store_release"

\* `status = assoc.send_c_store(dataset)`: a reply with a status, no reply
\* (empty Dataset, the association is aborted: the peer closed the connection
\* or the reply did not come within the timeout), or an exception raised with
\* the association still established (no accepted presentation context, the
\* dataset fails to encode) or already gone (peer abort).
StoreSend ==
    /\ pc = "store_send"
    /\ \/ /\ \E c \in StatusReplies : status' = {c}
          /\ pc' = AfterSend(prog)
          /\ UNCHANGED <<assoc, timedOut>>
       \/ /\ status' = {}
          /\ assoc' = "aborted"
          /\ \E t \in BOOLEAN : timedOut' = t
          /\ pc' = AfterSend(prog)
       \/ /\ pc' = Handler("store_send")
          /\ \E a \in {"established", "aborted"} : assoc' = a
          /\ UNCHANGED <<status, timedOut>>
    /\ UNCHANGED <<tmpfiles, pix, synth, ext, fixed, slice_num, ctrs, ret, outcome, leaked, ghost>>

\* `assoc.release()`
StoreRelease ==
    /\ pc = "store_release"
    /\ assoc' = Release(assoc)
    /\ pc' = AfterRelease(prog)
    /\ UNCHANGED <<io, pix, synth, ext, fixed, slice_num, ctrs, status, ret, outcome, leaked, ghost>>

\* create-multislice-ct.py: `if status and status.Status == 0x0000`;
\* dicom-test-sender.py: `if status:`.
StoreResult(p, st) ==
    IF p = "create" THEN Truthy(st) /\ st = {STATUS_SUCCESS}
    ELSE Truthy(st)

StoreCheckStatus ==
    /\ pc = "store_check_status"
    /\ ret' = StoreResult(prog, status)
    /\ pc' = AfterCheckStatus(prog)
    /\ UNCHANGED <<io, pix, synth, ext, fixed, slice_num, ctrs, assoc, status, outcome, leaked, ghost>>

\* `except Exception as e: ... return False`
StoreExcept ==
    /\ pc = "store_except"
    /\ ret' = FALSE
    /\ pc' = "store_return"
    /\ UNCHANGED <<io, pix, synth, ext, fixed, slice_num, ctrs, assoc, status, outcome, leaked, ghost>>

----------------------------------------------------------------------------
(* upload_dicom_to_backend, upload-multislice-ct.py *)

\* `with open(dicom_file_path, 'rb') as f:`
UploadOpen ==
    /\ pc = "upload_open"
    /\ \/ pc' = "upload_post"
       \/ pc' = Handler("upload_open")
    /\ UNCHANGED <<io, pix, synth, ext, fixed, slice_num, ctrs, assoc, status, ret, outcome, leaked, ghost>>

\* `return response.status_code == 200`
UploadResult_any_2xx(st) == \E c \in st : c \div 100 = 2

UploadResult(st) == st = {HTTP_OK}

\* `response = requests.post(..., timeout=30)`: a response, or an exception
\* (requests.Timeout after the 30 s, or a connection error).
UploadPost ==
    /\ pc = "upload_post"
    /\ \/ /\ \E c \in HttpReplies : /\ status' = {c}
                                    /\ ret' = UploadResult({c})
          /\ pc' = "store_return"
          /\ UNCHANGED timedOut
       \/ /\ pc' = Handler("upload_post")
          /\ \E t \in BOOLEAN : timedOut' = t
          /\ UNCHANGED <<status, ret>>
    /\ UNCHANGED <<tmpfiles, pix, synth, ext, fixed, slice_num, ctrs, assoc, outcome, leaked, ghost>>

\* `except Exception as e: ... return False`
UploadExcept ==
    /\ pc = "upload_except"
    /\ ret' = FALSE
    /\ pc' = "store_return"
    /\ UNCHANGED <<io, pix, synth, ext, fixed, slice_num, ctrs, assoc, status, outcome, leaked, ghost>>

----------------------------------------------------------------------------
(* Back in main *)

\* The return of send_dicom_to_orthanc / upload_dicom_to_backend to main.
StoreReturn ==
    /\ pc = "store_return"
    /\ leaked' = (leaked \/ LeakOnReturn(assoc))
    /\ storeReturns' = storeReturns + 1
    /\ storeTrue' = storeTrue + (IF ret THEN 1 ELSE 0)
    /\ pc' = "record"
    /\ UNCHANGED <<io, pix, synth, ext, fixed, slice_num, ctrs, assoc, status, ret, outcome,
                   echoCalls, echoRet, stored, paused>>

\* `if <store call>: successful += 1 else: failed += 1`
RecordSuccessful(r, n) == IF r THEN n + 1 ELSE n

RecordFailed_dropped(r, n) == n

RecordFailed(r, n) == IF r THEN n ELSE n + 1

Record ==
    /\ pc = "record"
    /\ successful' = RecordSuccessful(ret, successful)
    /\ failed' = RecordFailed(ret, failed)
    /\ pc' = "pace"
    /\ UNCHANGED <<io, pix, synth, ext, fixed, slice_num, assoc, status, ret, outcome, leaked, ghost>>

\* The pacing pause at the end of the loop body:
\*   create-multislice-ct.py  `if slice_num % 10 == 0: time.sleep(0.5)`
\*   upload-multislice-ct.py  `if slice_num % 20 == 0: time.sleep(1)`
\*   dicom-test-sender.py     `if i < len(test_studies): time.sleep(2)`
Pauses_same_batch(p, i, n) ==
    IF p \in {"create", "upload"} THEN i % BATCH_CREATE = 0
    ELSE i < n

Pauses(p, i, n) ==
    IF p = "create" THEN i % BATCH_CREATE = 0
    ELSE IF p = "upload" THEN i % BATCH_UPLOAD = 0
    ELSE i < n

Pace ==
    /\ pc = "pace"
    /\ paused' = paused + (IF Pauses(prog, slice_num, total) THEN 1 ELSE 0)
    /\ slice_num' = slice_num + 1
    /\ pc' = "loop_head"
    /\ UNCHANGED <<io, pix, synth, ext, fixed, ctrs, assoc, status, ret, outcome, leaked,
                   echoCalls, echoRet, stored, storeReturns, storeTrue>>

\* The completion verdict printed after the summary:
\*   create-multislice-ct.py  `if successful == NUM_SLICES`        SUCCESS / WARNING
\*   upload-multislice-ct.py  `if successful >= NUM_SLICES * 0.9`  SUCCESS / WARNING
\*   dicom-test-sender.py     `if successful > 0`   sent successfully / All
\*                                                  transmissions failed
Verdict_strict(p, ok, n) ==
    IF p = "create" THEN (IF ok = n THEN "SUCCESS" ELSE "WARNING")
    ELSE IF p = "upload" THEN (IF ok * 10 > n * 9 THEN "SUCCESS" ELSE "WARNING")
    ELSE (IF ok > 0 THEN "SUCCESS" ELSE "ALL_FAILED")

Verdict(p, ok, n) ==
    IF p = "create" THEN (IF ok = n THEN "SUCCESS" ELSE "WARNING")
    ELSE IF p = "upload" THEN (IF ok * 10 >= n * 9 THEN "SUCCESS" ELSE "WARNING")
    ELSE (IF ok > 0 THEN "SUCCESS" ELSE "ALL_FAILED")

Summary ==
    /\ pc = "summary"
    /\ verdict' = Verdict(prog, successful, total)
    /\ exit_code' = 0
    /\ pc' = "done"
    /\ UNCHANGED <<io, pix, synth, ext, fixed, slice_num, ctrs, assoc, status, ret, leaked, ghost>>

----------------------------------------------------------------------------
Next ==
    \/ MainCallEcho
    \/ MainAfterEcho
    \/ MainStartLoop
    \/ EchoAssociate
    \/ EchoCheckAssoc
    \/ EchoSend
    \/ EchoRelease
    \/ EchoCheckStatus
    \/ EchoExcept
    \/ EchoReturn
    \/ LoopHead
    \/ CreateSlice
    \/ SaveFile
    \/ CallStore
    \/ StoreAssociate
    \/ StoreCheckAssoc
    \/ StoreSend
    \/ StoreRelease
    \/ StoreCheckStatus
    \/ StoreExcept
    \/ UploadOpen
    \/ UploadPost
    \/ UploadExcept
    \/ StoreReturn
    \/ Record
    \/ Pace
    \/ Summary

Spec == Init /\ [][Next]_vars

----------------------------------------------------------------------------
(* The same scripts with the number of items as a parameter: NUM_SLICES     *)
(* (the length of test_studies in dicom-test-sender.py) is any value from 0 *)
(* to MaxCount.  The scripts are single-threaded and every statement        *)
(* returns (network calls within their timeouts, time.sleep after its       *)
(* delay), so a step that can be taken is eventually taken: WF_vars(Next).  *)

MaxCount == 3

Min(a, b) == IF a < b THEN a ELSE b

ConfigInit ==
    /\ prog \in Programs
    /\ total \in 0..Min(MaxCount, NumSlices(prog))
    /\ pc = "main_start"
    /\ slice_num = 0
    /\ successful = 0
    /\ failed = 0
    /\ assoc = "none"
    /\ status = {}
    /\ ret = FALSE
    /\ verdict = "none"
    /\ exit_code = -1
    /\ leaked = FALSE
    /\ echoCalls = 0
    /\ echoRet = "unset"
    /\ stored = <<>>
    /\ storeReturns = 0
    /\ storeTrue = 0
    /\ paused = 0
    /\ study_uid = 0
    /\ series_uid = 0
    /\ uidNext = 1
    /\ ds = NoDs
    /\ prevDs = NoDs
    /\ sops = <<>>
    /\ buildFailed = 0
    /\ image_size = IMAGE_SIZE
    /\ geom = NoGeom
    /\ prevRadius = 0
    /\ pixel = NoPixel
    /\ timedOut = FALSE
    /\ tmpfiles = {}
    /\ response_text = NoText
    /\ parse_out = Pending
    /\ SuiteIdle

ConfigSpec == ConfigInit /\ [][Next]_vars /\ WF_vars(Next)

----------------------------------------------------------------------------
(* create_ct_slice on its own: the slices of one series are built in the    *)
(* order of the loop of main, `for slice_num in range(1, NUM_SLICES + 1)`,  *)
(* for every series length up to MaxTotal, and one pixel of each slice is   *)
(* read back, from a grid of step PixelStride anchored at the image centre. *)

MaxTotal == 4

PixelStride == 8

ImageSizes == {<<512, 512>>, <<64, 96>>}

\* Offsets a * PixelStride that stay inside 0..len-1 around centre c.
GridAround(c, len) ==
    {c + a * PixelStride : a \in -(c \div PixelStride)..((len - 1 - c) \div PixelStride)}

InitSlice ==
    /\ prog \in {"create", "upload"}
    /\ total \in 1..MaxTotal
    /\ image_size \in ImageSizes
    /\ pc = "slice_call"
    /\ slice_num = 1
    /\ successful = 0
    /\ failed = 0
    /\ assoc = "none"
    /\ status = {}
    /\ ret = FALSE
    /\ verdict = "none"
    /\ exit_code = -1
    /\ leaked = FALSE
    /\ echoCalls = 0
    /\ echoRet = "unset"
    /\ stored = <<>>
    /\ storeReturns = 0
    /\ storeTrue = 0
    /\ paused = 0
    /\ study_uid = 1
    /\ series_uid = 2
    /\ uidNext = 3
    /\ ds = NoDs
    /\ prevDs = NoDs
    /\ sops = <<>>
    /\ buildFailed = 0
    /\ geom = NoGeom
    /\ prevRadius = 0
    /\ pixel = NoPixel
    /\ timedOut = FALSE
    /\ tmpfiles = {}
    /\ response_text = NoText
    /\ parse_out = Pending
    /\ SuiteIdle

\* `ds = create_ct_slice(slice_num, NUM_SLICES, study_uid, series_uid, ...)`
SliceBuild ==
    /\ pc = "slice_call"
    /\ \E tm \in BOOLEAN, ti \in BOOLEAN, tr \in BOOLEAN :
           geom' = Geometry(slice_num, total, image_size, tm, ti, tr)
    /\ ds' = CtSlice(study_uid, series_uid, slice_num, total, image_size, uidNext)
    /\ uidNext' = uidNext + 2
    /\ prevDs' = ds
    /\ sops' = Append(sops, ds'.SOPInstanceUID)
    /\ prevRadius' = IF geom = NoGeom THEN 0 ELSE geom.radius
    /\ pixel' = NoPixel
    /\ pc' = "slice_built"
    /\ UNCHANGED <<io, image_size, study_uid, series_uid, buildFailed>>
    /\ UNCHANGED <<ext, fixed, slice_num, ctrs, assoc, status, ret, outcome, leaked, ghost>>

\* One element pixel_array[y, x] of the slice just built.
SlicePixel ==
    /\ pc = "slice_built"
    /\ \E y \in GridAround(geom.center_y, image_size[1]),
          x \in GridAround(geom.center_x, image_size[2]),
          ji \in InnerJitter, jo \in OuterJitter, jr \in RibJitter :
           pixel' = [x |-> x, y |-> y,
                     value |-> PixelValue(geom, x, y, ji, jo, jr)]
    /\ pc' = "slice_read"
    /\ UNCHANGED <<io, image_size, geom, prevRadius, synth>>
    /\ UNCHANGED <<ext, fixed, slice_num, ctrs, assoc, status, ret, outcome, leaked, ghost>>

\* The next iteration of `for slice_num in range(1, NUM_SLICES + 1)`
SliceAdvance ==
    /\ pc \in {"slice_built", "slice_read"}
    /\ slice_num < total
    /\ slice_num' = slice_num + 1
    /\ pixel' = NoPixel
    /\ pc' = "slice_call"
    /\ UNCHANGED <<io, image_size, geom, prevRadius, synth>>
    /\ UNCHANGED <<ext, fixed, ctrs, assoc, status, ret, outcome, leaked, ghost>>

\* create_ct_slice called a second time with the arguments of the slice just
\* built: generate_uid() is called again for sop_uid and for
\* ImplementationClassUID.
SliceRebuild ==
    /\ pc = "slice_built"
    /\ ds' = CtSlice(study_uid, series_uid, slice_num, total, image_size, uidNext)
    /\ uidNext' = uidNext + 2
    /\ prevDs' = ds
    /\ sops' = Append(sops, ds'.SOPInstanceUID)
    /\ pc' = "slice_rebuilt"
    /\ UNCHANGED <<io, pix, study_uid, series_uid, buildFailed>>
    /\ UNCHANGED <<ext, fixed, slice_num, ctrs, assoc, status, ret, outcome, leaked, ghost>>

NextSlice ==
    \/ SliceBuild
    \/ SlicePixel
    \/ SliceAdvance
    \/ SliceRebuild

SliceSpec == InitSlice /\ [][NextSlice]_vars

----------------------------------------------------------------------------
(* parse_ai_response on its own, for every response text of up to MaxText   *)
(* pieces, for None and for a number.                                       *)

MaxText == 4

RECURSIVE Texts(_)
Texts(n) ==
    IF n = 0 THEN {<<>>}
    ELSE Texts(n - 1) \cup
         {Append(t, c) : t \in {u \in Texts(n - 1) : Len(u) = n - 1}, c \in Pieces}

ParseInputs ==
    {Str(t) : t \in Texts(MaxText)} \cup {[type |-> "None"], [type |-> "int"]}

\* The variables of the transfer scripts, at rest.
RunIdle ==
    /\ prog = "create"
    /\ total = 0
    /\ slice_num = 0
    /\ successful = 0
    /\ failed = 0
    /\ assoc = "none"
    /\ status = {}
    /\ ret = FALSE
    /\ verdict = "none"
    /\ exit_code = -1
    /\ leaked = FALSE
    /\ echoCalls = 0
    /\ echoRet = "unset"
    /\ stored = <<>>
    /\ storeReturns = 0
    /\ storeTrue = 0
    /\ paused = 0
    /\ study_uid = 0
    /\ series_uid = 0
    /\ uidNext = 1
    /\ ds = NoDs
    /\ prevDs = NoDs
    /\ sops = <<>>
    /\ buildFailed = 0
    /\ image_size = IMAGE_SIZE
    /\ geom = NoGeom
    /\ prevRadius = 0
    /\ pixel = NoPixel
    /\ timedOut = FALSE
    /\ tmpfiles = {}

InitParse ==
    /\ response_text \in ParseInputs
    /\ parse_out = Pending
    /\ pc = "parse_call"
    /\ RunIdle
    /\ SuiteIdle

\* `parsed_result = parse_ai_response(ai_result["response"])`
ParseCall ==
    /\ pc = "parse_call"
    /\ parse_out' = ParseAiResponse(response_text)
    /\ pc' = "parse_done"
    /\ UNCHANGED <<response_text, suite, io, pix, synth, fixed, slice_num, ctrs, assoc,
                   status, ret, outcome, leaked, ghost>>

NextParse == ParseCall

ParseSpec == InitParse /\ [][NextParse]_vars

----------------------------------------------------------------------------
(* machine_test.py: main, run_all_tests, the seven tests and cleanup.       *)
(* The backend is the environment: every request gets some status code and  *)
(* some body, or ends in an exception of requests (timeout, refused         *)
(* connection).  A test function can also let an exception escape to        *)
(* run_all_tests (raised in its except handler or, in the last three tests, *)
(* before its try block); it has logged nothing then.                       *)

HttpStatuses == {200, 201, 404, 500}

\* What the tests look at in a JSON body: "ok" has success, data and the
\* field the test reads; "no_id" is a create reply with success and data but
\* no machineId; "invalid" is anything else (success false, no data, no QR
\* code, not JSON).
Bodies == {"ok", "no_id", "invalid"}

Exception == [exception |-> TRUE]

Replies == [code : HttpStatuses, body : Bodies] \cup {Exception}

\* The reply makes the test pass: the expected status code and a body in
\* which the test finds all it reads.
Passes(r, expected) == r # Exception /\ r.code = expected /\ r.body = "ok"

run == <<io, pix, synth, fixed, slice_num, ctrs, assoc, status, ret, verdict, leaked,
         ghost>>

InitSuite ==
    /\ pc = "suite_main"
    /\ SuiteIdle
    /\ RunIdle
    /\ response_text = NoText
    /\ parse_out = Pending

\* main: `test_suite = MachineManagementTestSuite()`, then inside `try:`
\* `results = test_suite.run_all_tests()`, which starts its loop.
SuiteStart ==
    /\ pc = "suite_main"
    /\ test_idx' = 1
    /\ passed' = 0
    /\ pc' = "suite_test"
    /\ UNCHANGED <<test_ret, failed_tests, test_results, created_machine_id, sent,
                   results, machine_status, raised, cleanups>>
    /\ UNCHANGED <<ai, run, exit_code, created_on_server>>

\* The common shape of a test that sends one request: the request is sent,
\* then the result is logged and returned, or an exception escapes.
SendAndLog(test, method, expected) ==
    /\ sent' = Append(sent, Request(test, method))
    /\ \/ \E r \in Replies :
             /\ test_ret' = IF Passes(r, expected) THEN "True" ELSE "False"
             /\ failed_tests' = LogFailed(failed_tests, test, Passes(r, expected))
             /\ test_results' = Append(test_results, test)
       \/ /\ test_ret' = "raised"
          /\ UNCHANGED <<failed_tests, test_results>>

\* The head of the last three tests when there is no machine ID: the
\* failure is logged and False is returned, no request is sent.
FailWithoutMachine(test) ==
    /\ UNCHANGED sent
    /\ \/ /\ test_ret' = "False"
          /\ failed_tests' = LogFailed(failed_tests, test, FALSE)
          /\ test_results' = Append(test_results, test)
       \/ /\ test_ret' = "raised"
          /\ UNCHANGED <<failed_tests, test_results>>

\* test_backend_server_health: GET /, passes on status 200.
TestBackendServerHealth ==
    /\ pc = "suite_test"
    /\ Tests[test_idx] = "health"
    /\ sent' = Append(sent, Request("health", "GET"))
    /\ \/ \E r \in Replies :
             LET ok == r # Exception /\ r.code = 200 IN
             /\ test_ret' = IF ok THEN "True" ELSE "False"
             /\ failed_tests' = LogFailed(failed_tests, "health", ok)
             /\ test_results' = Append(test_results, "health")
       \/ /\ test_ret' = "raised"
          /\ UNCHANGED <<failed_tests, test_results>>
    /\ pc' = "suite_record"
    /\ UNCHANGED <<test_idx, passed, created_machine_id, results, machine_status,
                   raised, cleanups>>
    /\ UNCHANGED <<ai, run, exit_code, created_on_server>>

\* test_create_organization: nothing is sent, the test logs success.
TestCreateOrganization ==
    /\ pc = "suite_test"
    /\ Tests[test_idx] = "organization"
    /\ \/ /\ test_ret' = "True"
          /\ failed_tests' = LogFailed(failed_tests, "organization", TRUE)
          /\ test_results' = Append(test_results, "organization")
       \/ /\ test_ret' = "raised"
          /\ UNCHANGED <<failed_tests, test_results>>
    /\ pc' = "suite_record"
    /\ UNCHANGED <<test_idx, passed, created_machine_id, sent, results,
                   machine_status, raised, cleanups>>
    /\ UNCHANGED <<ai, run, exit_code, created_on_server>>

\* test_create_machine: POST /api/machines; on 201 with success, data and a
\* machineId the ID is kept in self.created_machine_id and the test passes.
TestCreateMachine ==
    /\ pc = "suite_test"
    /\ Tests[test_idx] = "create"
    /\ sent' = Append(sent, Request("create", "POST"))
    /\ \/ \E r \in Replies :
             /\ test_ret' = IF Passes(r, 201) THEN "True" ELSE "False"
             /\ created_on_server' = (r # Exception /\ r.code = 201)
             /\ created_machine_id' =
                    IF Passes(r, 201) THEN MACHINE_ID ELSE created_machine_id
             /\ failed_tests' = LogFailed(failed_tests, "create", Passes(r, 201))
             /\ test_results' = Append(test_results, "create")
       \/ /\ test_ret' = "raised"
          /\ UNCHANGED <<failed_tests, test_results, created_machine_id,
                       created_on_server>>
    /\ pc' = "suite_record"
    /\ UNCHANGED <<test_idx, passed, results, machine_status, raised, cleanups>>
    /\ UNCHANGED <<ai, run, exit_code>>

\* test_get_machines_by_organization: GET /api/machines, passes on 200 with
\* success.
TestGetMachines ==
    /\ pc = "suite_test"
    /\ Tests[test_idx] = "get"
    /\ SendAndLog("get", "GET", 200)
    /\ pc' = "suite_record"
    /\ UNCHANGED <<test_idx, passed, created_machine_id, results, machine_status,
                   raised, cleanups>>
    /\ UNCHANGED <<ai, run, exit_code, created_on_server>>

\* test_get_qr_code: GET /api/machines/<id>/config?format=qr
TestGetQrCode ==
    /\ pc = "suite_test"
    /\ Tests[test_idx] = "qr"
    /\ IF HasMachineId(created_machine_id)
       THEN SendAndLog("qr", "GET", 200)
       ELSE FailWithoutMachine("qr")
    /\ pc' = "suite_record"
    /\ UNCHANGED <<test_idx, passed, created_machine_id, results, machine_status,
                   raised, cleanups>>
    /\ UNCHANGED <<ai, run, exit_code, created_on_server>>

\* test_dicom_connection: POST /api/machines/<id>/test
TestDicomConnection ==
    /\ pc = "suite_test"
    /\ Tests[test_idx] = "dicom"
    /\ IF HasMachineId(created_machine_id)
       THEN SendAndLog("dicom", "POST", 200)
       ELSE FailWithoutMachine("dicom")
    /\ pc' = "suite_record"
    /\ UNCHANGED <<test_idx, passed, created_machine_id, results, machine_status,
                   raised, cleanups>>
    /\ UNCHANGED <<ai, run, exit_code, created_on_server>>

\* test_delete_machine: DELETE /api/machines/<id>; on 200 with success the
\* test passes and clears self.created_machine_id.
TestDeleteMachine ==
    /\ pc = "suite_test"
    /\ Tests[test_idx] = "delete"
    /\ IF HasMachineId(created_machine_id)
       THEN /\ SendAndLog("delete", "DELETE", 200)
            /\ created_machine_id' =
                   IF test_ret' = "True" THEN AfterDelete(created_machine_id)
                   ELSE created_machine_id
       ELSE /\ FailWithoutMachine("delete")
            /\ UNCHANGED created_machine_id
    /\ pc' = "suite_record"
    /\ UNCHANGED <<test_idx, passed, results, machine_status, raised, cleanups>>
    /\ UNCHANGED <<ai, run, exit_code, created_on_server>>

\* The loop body of run_all_tests after test_func():
\* `if result: passed += 1`, and `except Exception` logs the failure of a
\* test that raised; then the next test, or the summary after the last.
SuiteRecord ==
    /\ pc = "suite_record"
    /\ passed' = IF test_ret = "True" THEN passed + 1 ELSE passed
    /\ failed_tests' = IF test_ret = "raised"
                       THEN LogFailed(failed_tests, Tests[test_idx], FALSE)
                       ELSE failed_tests
    /\ test_results' = IF test_ret = "raised"
                       THEN Append(test_results, Tests[test_idx])
                       ELSE test_results
    /\ IF test_idx < Len(Tests)
       THEN test_idx' = test_idx + 1 /\ pc' = "suite_test"
       ELSE pc' = "suite_summary" /\ UNCHANGED test_idx
    /\ UNCHANGED <<test_ret, created_machine_id, sent, results, machine_status,
                   raised, cleanups>>
    /\ UNCHANGED <<ai, run, exit_code, created_on_server>>

\* `any(keyword in failed['test'].lower() for keyword in ['server',
\* 'create', 'delete'])`: the names of the health, create and delete tests.
Critical == {"health", "create", "delete"}

CountCritical(log) == Cardinality({i \in 1..Len(log) : log[i] \in Critical})

\* The dict returned by run_all_tests.
SuiteSummary ==
    /\ pc = "suite_summary"
    /\ results' = [total_tests     |-> Len(Tests),
                   passed_tests    |-> passed,
                   failed_tests    |-> Len(failed_tests),
                   critical_issues |-> CountCritical(failed_tests)]
    /\ pc' = "suite_assess"
    /\ UNCHANGED <<test_idx, test_ret, passed, failed_tests, test_results,
                   created_machine_id, sent, machine_status, raised, cleanups>>
    /\ UNCHANGED <<ai, run, exit_code, created_on_server>>

\* success_rate = (passed / total) * 100, compared with 80 and 60.
RateAtLeast(res, percent) == res.passed_tests * 100 >= percent * res.total_tests

Functional(res) == RateAtLeast(res, 80) /\ res.critical_issues = 0

\* main: the final assessment, then the results file is written
\* (`open('/app/machine_test_results.json', 'w')`, which can raise).
MainAssess ==
    /\ pc = "suite_assess"
    /\ machine_status' = IF Functional(results) THEN "functional"
                         ELSE IF RateAtLeast(results, 60) THEN "minor issues"
                         ELSE "major issues"
    /\ \E r \in {"none", "io"} : raised' = r
    /\ pc' = "suite_finally"
    /\ UNCHANGED <<test_idx, test_ret, passed, failed_tests, test_results,
                   created_machine_id, sent, results, cleanups>>
    /\ UNCHANGED <<ai, run, exit_code, created_on_server>>

\* A KeyboardInterrupt while run_all_tests is running: it is no Exception,
\* so neither a test nor run_all_tests catches it; control goes to the
\* finally block of main.
Interrupt ==
    /\ pc \in {"suite_test", "suite_record", "suite_summary"}
    /\ raised' = "interrupt"
    /\ pc' = "suite_finally"
    /\ UNCHANGED <<test_idx, test_ret, passed, failed_tests, test_results,
                   created_machine_id, sent, results, machine_status, cleanups>>
    /\ UNCHANGED <<ai, run, exit_code, created_on_server>>

\* `finally: test_suite.cleanup()`: a DELETE when self.created_machine_id is
\* set; whatever the reply, nothing is raised and the ID is left as it is.
Cleanup ==
    /\ pc = "suite_finally"
    /\ cleanups' = cleanups + 1
    /\ sent' = IF created_machine_id # NoMachine
               THEN Append(sent, Request("cleanup", "DELETE"))
               ELSE sent
    /\ pc' = "suite_exit"
    /\ UNCHANGED <<test_idx, test_ret, passed, failed_tests, test_results,
                   created_machine_id, results, machine_status, raised>>
    /\ UNCHANGED <<ai, run, exit_code, created_on_server>>

\* `success = main(); exit(0 if success else 1)`; an exception that left
\* main ends the process with a traceback and a non-zero status.
MainExit ==
    /\ pc = "suite_exit"
    /\ exit_code' = IF raised = "interrupt" THEN 130
                    ELSE IF raised = "io" THEN 1
                    ELSE IF Functional(results) THEN 0 ELSE 1
    /\ pc' = "suite_done"
    /\ UNCHANGED <<suite, ai, run>>

NextSuite ==
    \/ SuiteStart
    \/ TestBackendServerHealth
    \/ TestCreateOrganization
    \/ TestCreateMachine
    \/ TestGetMachines
    \/ TestGetQrCode
    \/ TestDicomConnection
    \/ TestDeleteMachine
    \/ SuiteRecord
    \/ SuiteSummary
    \/ MainAssess
    \/ Interrupt
    \/ Cleanup
    \/ MainExit

SuiteSpec == InitSuite /\ [][NextSuite]_vars

----------------------------------------------------------------------------
TypeOK ==
    /\ prog \in Programs
    /\ total = NumSlices(prog)
    /\ slice_num \in 0..(total + 1)
    /\ successful \in 0..total
    /\ failed \in 0..total
    /\ assoc \in {"none", "established", "rejected", "released", "aborted"}
    /\ status \subseteq (StatusReplies \cup HttpReplies)
    /\ ret \in BOOLEAN
    /\ verdict \in {"none", "SUCCESS", "WARNING", "ALL_FAILED"}
    /\ exit_code \in {-1, 0, 1}
    /\ leaked \in BOOLEAN
    /\ echoCalls \in 0..1
    /\ echoRet \in {"unset", "true", "false"}
    /\ Len(stored) <= total
    /\ storeReturns \in 0..total
    /\ storeTrue \in 0..total
    /\ paused \in 0..total
    /\ uidNext \in 1..(4 * total + 3)
    /\ Len(sops) <= total
    /\ buildFailed \in 0..total
    /\ pc = "crashed" => exit_code = 1

----------------------------------------------------------------------------
(* Positions of the thread of control *)

EchoPcs == {"echo_associate", "echo_check_assoc", "echo_send", "echo_release",
            "echo_check_status", "echo_except", "echo_return"}

StorePcs == {"store_associate", "store_check_assoc", "store_send",
             "store_release", "store_check_status", "store_except",
             "upload_open", "upload_post", "upload_except", "store_return"}

LoopPcs == {"loop_head", "create_slice", "save_file", "call_store", "record",
            "pace"} \cup StorePcs

\* <<1, 2, ..., k>>
Ordinals(k) == [j \in 1..k |-> j]

----------------------------------------------------------------------------
(* C1: once verifyConnectivity (test_orthanc_echo) has returned false, no
   store call is ever made and no slice is attempted: the run is at the
   abort (sys.exit(1)) or about to take it, with attempted = 0 and no
   verdict of a completed run. *)
C1_AbortOnFailedEcho ==
    echoRet = "false" =>
        /\ pc \in {"main_after_echo", "exited"}
        /\ stored = <<>>
        /\ storeReturns = 0
        /\ slice_num = 0
        /\ successful + failed = 0
        /\ verdict = "none"
        /\ pc = "exited" => exit_code = 1

C1_Witness ==
    /\ prog = "sender"
    /\ echoRet = "false"
    /\ pc = "exited"
    /\ stored = <<>>

(* C2: the store function is called exactly once for each ordinal, in
   increasing order (the calls made so far are for 1, 2, ..., k, and k is
   the current ordinal or the one before it), whatever the earlier calls
   returned, and a run that reaches its summary has made all N calls. *)
C2_StoreOncePerOrdinal ==
    /\ stored = Ordinals(Len(stored))
    /\ pc \in {"loop_head", "create_slice", "save_file", "call_store"}
           => Len(stored) = slice_num - 1
    /\ pc \in StorePcs \cup {"record", "pace"} => Len(stored) = slice_num
    /\ pc \in {"summary", "done"} => Len(stored) = total

C2_Witness ==
    /\ prog = "create"
    /\ pc = "done"
    /\ failed > 0
    /\ successful > 0
    /\ stored = Ordinals(total)

(* C3: succeeded + failed is the number of store calls that have returned
   (and been recorded), succeeded is the number of those that returned
   True, so each returned call has incremented exactly one counter once; at
   the end attempted = N, succeeded = number of True returns, failed = N -
   succeeded. *)
C3_CounterAccounting ==
    /\ successful + failed = storeReturns - (IF pc = "record" THEN 1 ELSE 0)
    /\ successful = storeTrue - (IF pc = "record" /\ ret THEN 1 ELSE 0)
    /\ pc \in {"summary", "done"} =>
          /\ Len(stored) = total
          /\ storeReturns = total
          /\ successful = storeTrue
          /\ failed = total - storeTrue

C3_Witness ==
    /\ prog = "create"
    /\ pc = "done"
    /\ failed = 2
    /\ successful = total - 2
    /\ storeReturns = total

(* C4: store (send_dicom_to_orthanc) returns success only if the session
   was established and the status reply is the canonical success status
   0x0000; with any other status, an empty status, a rejected negotiation or
   an unestablished session it returns failure. *)
C4_SuccessOnlyOnStatusZero ==
    (prog # "upload" /\ pc = "store_return" /\ ret) =>
        /\ status = {STATUS_SUCCESS}
        /\ assoc \notin {"none", "rejected"}

(* C5: no operation (store or verifyConnectivity) returns with the session
   it opened still established: the session is released on every exit path,
   the exception paths included. *)
C5_ReleasedOnEveryExit ==
    /\ pc \in {"store_return", "echo_return"} => ~IsEstablished(assoc)
    /\ ~leaked

(* C6: a run in which every store call failed reaches its summary with
   succeeded = 0 and failed = N, and its verdict differs from the verdict of
   every run in which some item was transferred. *)
C6_TotalFailureVerdict ==
    (pc = "done" /\ storeTrue = 0) =>
        /\ successful = 0
        /\ failed = total
        /\ \A k \in 1..total : verdict # Verdict(prog, k, total)

(* C7: in every run verifyConnectivity (test_orthanc_echo) is called exactly
   once and has returned before the first slice is synthesized and before
   any store call. *)
C7_VerifyOnceBeforeLoop ==
    (pc \in LoopPcs \cup {"summary", "done"}) =>
        /\ echoCalls = 1
        /\ echoRet # "unset"

(* C8: verifyConnectivity (test_orthanc_echo) never raises to main, and it
   returns true exactly when the session was established (and then released)
   and the liveness exchange got a reply; a rejected or aborted negotiation,
   a missing reply and an exception all give false. *)
C8_EchoIsPredicate ==
    /\ ~(pc = "crashed" /\ echoCalls = 1 /\ echoRet = "unset")
    /\ pc = "echo_return" => (ret <=> (Truthy(status) /\ assoc = "released"))

C8_Witness ==
    /\ pc = "echo_return"
    /\ ~ret
    /\ status = {}
    /\ assoc = "established"

(* C9: every store call goes Idle, Negotiating, Rejected or Established,
   and only from Established to Transferring, and ends Closed: the payload
   is sent only on an established session, a rejected negotiation returns
   failure with no transfer, nothing is raised to the caller, and the
   session is not established any more when the call returns. *)
C9_StoreStateMachine ==
    prog # "upload" =>
        /\ pc = "store_send" => IsEstablished(assoc)
        /\ (pc = "store_return" /\ assoc = "rejected") => (~ret /\ status = {})
        /\ ~(pc = "crashed" /\ Len(stored) > storeReturns)
        /\ pc = "store_return" => ~IsEstablished(assoc)

C11_PartialBelowThresholdWarns ==
    (/\ pc = "done"
     /\ storeTrue > 0
     /\ storeTrue < total
     /\ 10 * storeTrue < 9 * total) => verdict = "WARNING"

(* C19: slices are processed one after another: at most one session is open
   at any moment (never an open session of the current call beside one left
   open by an earlier call), when a slice is synthesized every earlier
   store call has returned and no session is open, and every store call
   starts from a fresh session. *)
C19_OneSessionAtATime ==
    /\ pc \in StorePcs \cup EchoPcs => ~(leaked /\ IsEstablished(assoc))
    /\ pc \in {"create_slice", "save_file", "call_store"} =>
          /\ storeReturns = slice_num - 1
          /\ ~IsEstablished(assoc)
          /\ ~leaked
    /\ pc = "store_associate" => assoc = "none"

\* The fixed batch size of the pacing pause of the two slice generators.
BatchSize(p) == IF p = "create" THEN 10 ELSE 20

(* C20: in create-multislice-ct.py (batch 10) and upload-multislice-ct.py
   (batch 20) the pause is taken after item k exactly when k is a multiple
   of the batch size, whatever the item's outcome: after k completed items
   the run has paused floor(k / batch) times, floor(N / batch) at the end. *)
C20_PauseEveryBatch ==
    prog \in {"create", "upload"} =>
        /\ slice_num >= 1 => paused = (slice_num - 1) \div BatchSize(prog)
        /\ slice_num = 0 => paused = 0
        /\ pc = "done" => paused = total \div BatchSize(prog)

C20_Witness ==
    /\ prog = "create"
    /\ pc = "loop_head"
    /\ slice_num = 11
    /\ successful = 0
    /\ failed = 10
    /\ paused = 1

\* The set of the elements of a sequence.
Range(q) == {q[j] : j \in 1..Len(q)}

(* C12: when synthesizing or encoding a slice raises, the item is counted
   as failed, it is not passed to store/upload, and the loop goes on: main
   does not end on the error. *)
C12_BuildFailureIsItemFailure ==
    buildFailed # 0 =>
        /\ pc # "crashed"
        /\ exit_code # 1
        /\ buildFailed \notin Range(stored)
        /\ successful + failed >= 1

(* C13: in the two slice generators slice i lies at i x spacing along the
   normal axis (third component of ImagePositionPatient, and SliceLocation):
   the first slice at 1 x spacing, each later slice one spacing after the
   slice before it, the spacing being the declared SliceThickness (2.0 mm). *)
C13_PositionsArithmetic ==
    (prog # "sender" /\ ds # NoDs) =>
        /\ ds.InstanceNumber = Len(sops)
        /\ ds.SliceThickness = 20
        /\ ds.ImagePositionPatient[3] = ds.InstanceNumber * ds.SliceThickness
        /\ ds.SliceLocation = ds.ImagePositionPatient[3]
        /\ prevDs = NoDs => ds.ImagePositionPatient[3] = 1 * ds.SliceThickness
        /\ prevDs # NoDs =>
              ds.ImagePositionPatient[3] - prevDs.ImagePositionPatient[3]
                  = ds.SliceThickness

C13_Witness ==
    /\ prog = "create"
    /\ ds # NoDs
    /\ prevDs # NoDs
    /\ ds.InstanceNumber = 3
    /\ ds.ImagePositionPatient = <<0, 0, 60>>
    /\ prevDs.ImagePositionPatient = <<0, 0, 40>>

(* C14: within one run no two slices carry the same item identifier
   (SOPInstanceUID), and the exam (study) and sub-series identifiers differ
   from every item identifier. *)
C14_ItemIdentifiersUnique ==
    LET items == Range(sops) IN
    /\ Cardinality(items) = Len(sops)
    /\ study_uid # 0 => study_uid \notin items
    /\ series_uid # 0 => series_uid \notin items
    /\ ds # NoDs =>
          /\ ds.SOPInstanceUID = sops[Len(sops)]
          /\ ds.StudyInstanceUID \notin items
          /\ ds.SeriesInstanceUID \notin items
    /\ prevDs # NoDs =>
          /\ prevDs.SOPInstanceUID = sops[Len(sops) - 1]
          /\ prevDs.StudyInstanceUID \notin items
          /\ prevDs.SeriesInstanceUID \notin items

C14_Witness ==
    /\ prog = "create"
    /\ Len(sops) = total
    /\ ds # NoDs
    /\ ds.InstanceNumber = total
    /\ ds.SOPInstanceUID # prevDs.SOPInstanceUID

(* C15: in the two slice generators every slice carries the study and
   series identifiers main generated before the loop, and the same
   identifiers, dimensions, orientation vectors and pixel spacing as the
   slice before it. *)
C15_SharedSeriesContext ==
    (prog # "sender" /\ ds # NoDs) =>
        /\ study_uid # 0 /\ series_uid # 0
        /\ ds.StudyInstanceUID = study_uid
        /\ ds.SeriesInstanceUID = series_uid
        /\ prevDs # NoDs =>
              /\ ds.StudyInstanceUID = prevDs.StudyInstanceUID
              /\ ds.SeriesInstanceUID = prevDs.SeriesInstanceUID
              /\ ds.Rows = prevDs.Rows
              /\ ds.Columns = prevDs.Columns
              /\ ds.ImageOrientationPatient = prevDs.ImageOrientationPatient
              /\ ds.PixelSpacing = prevDs.PixelSpacing

C15_Witness ==
    /\ prog = "upload"
    /\ Len(sops) = total
    /\ ds # NoDs
    /\ prevDs # NoDs
    /\ ds.StudyInstanceUID = prevDs.StudyInstanceUID
    /\ ds.InstanceNumber = prevDs.InstanceNumber + 1

----------------------------------------------------------------------------
\* C16: for a fixed series length the body-boundary radius of every slice
\* 1..total_slices is strictly positive, and the radius of a slice is never
\* smaller than the radius of the slice built before it.
C16_RadiusPositiveMonotone ==
    geom # NoGeom =>
        /\ geom.den = total
        /\ geom.radius > 0
        /\ prevRadius <= geom.radius
        /\ \A i \in 1..total :
               /\ RadiusNum(i, total) > 0
               /\ i < total => RadiusNum(i, total) <= RadiusNum(i + 1, total)

C16_Witness ==
    /\ pc = "slice_read"
    /\ total > 1
    /\ slice_num = total
    /\ prevRadius > 0
    /\ prevRadius < geom.radius

\* C17 as stated: with one slice in the series the radius of that slice lies
\* strictly between the base radius and the largest radius.
C17_SingleSliceMidRange ==
    (pc \in {"slice_built", "slice_read"} /\ total = 1) =>
        /\ BASE_RADIUS * geom.den < geom.radius
        /\ geom.radius < (BASE_RADIUS + RADIUS_RANGE) * geom.den

\* C17 amended: with one slice in the series the slice is built (the
\* division slice_number / total_slices is by 1, nothing is raised) and its
\* radius is the largest radius of the interpolation, base + range.
C17_SingleSliceMaxRadius ==
    total = 1 =>
        /\ pc # "crashed"
        /\ buildFailed = 0
        /\ pc \in {"slice_built", "slice_read"} =>
               /\ slice_num = 1
               /\ geom.den = 1
               /\ geom.radius = BASE_RADIUS + RADIUS_RANGE

C17_Witness ==
    /\ total = 1
    /\ pc = "slice_read"
    /\ ds.InstanceNumber = 1
    /\ geom.radius = 200

\* The region of a pixel, by its distance from the image centre and from
\* the rib centres.
Region(g, x, y) ==
    IF ~InBody(g, x, y) THEN "outside"
    ELSE IF \E k \in 1..NUM_RIBS : InRib(g, k, x, y) THEN "structure"
    ELSE IF InInner(g, x, y) THEN "inner"
    ELSE "outer"

\* The density bands the comments of create_ct_slice give for the regions.
DocumentedBand(region) ==
    CASE region = "outside"   -> {-1000}
      [] region = "inner"     -> -800..-600
      [] region = "outer"     -> 0..200
      [] region = "structure" -> 300..1000

\* C18: every pixel holds a value of the band documented for its region:
\* -1000 outside the body, -800..-600 in the inner circle, 0..200 in the
\* outer ring, 300..1000 in a rib disk.
C18_PixelInDocumentedBand ==
    pixel # NoPixel =>
        pixel.value \in DocumentedBand(Region(geom, pixel.x, pixel.y))

----------------------------------------------------------------------------
Terminal == {"done", "exited", "crashed"}

\* C21: every run terminates.  A network call that runs into its timeout
\* makes the operation return False (the item is recorded as failed, the
\* connectivity check as not passed); main is never ended by an exception
\* of a network call; a run that has gone through all its items reaches the
\* summary.
C21_RunTerminates ==
    /\ [](timedOut /\ pc \in {"store_return", "record", "echo_return"} => ~ret)
    /\ [](timedOut /\ pc = "pace" => failed > 0)
    /\ [](pc = "crashed" => buildFailed # 0)
    /\ <>(pc \in Terminal)
    /\ (pc = "pace" /\ slice_num = total) ~> (pc = "done" /\ verdict # "none")

C21_Witness ==
    /\ pc = "done"
    /\ timedOut
    /\ total = MaxCount
    /\ storeReturns = total
    /\ failed > 0
    /\ successful > 0

SameSlice(a, b) ==
    /\ a # NoDs
    /\ b # NoDs
    /\ a.StudyInstanceUID = b.StudyInstanceUID
    /\ a.SeriesInstanceUID = b.SeriesInstanceUID
    /\ a.InstanceNumber = b.InstanceNumber
    /\ a.Rows = b.Rows
    /\ a.Columns = b.Columns

\* C22: two datasets built for the same slice (same study, series, slice
\* number and dimensions) have the same metadata, SOPInstanceUID included.
C22_SameSliceSameMetadata ==
    SameSlice(ds, prevDs) =>
        /\ ds.SOPInstanceUID = prevDs.SOPInstanceUID
        /\ ds = prevDs

\* The slices whose encoded data the run holds: the dataset bound to
\* dicom_slice / dataset in main (the slice created last) and the files in
\* the temporary directory.
HeldInMemory == IF ds = NoDs THEN {} ELSE {Len(sops)}

HeldSlices == HeldInMemory \cup tmpfiles

\* C23: the run holds the encoded data of at most one slice at a time, and
\* nothing of a slice once its outcome is recorded: when the next slice is
\* synthesized, and when the loop is over, no dataset and no file is left.
C23_NothingRetained ==
    /\ Cardinality(HeldSlices) <= 1
    /\ pc \in {"pace", "loop_head", "create_slice", "summary", "done"} =>
           HeldSlices = {}

\* C24: upload_dicom_to_backend returns True exactly when the POST came back
\* with status code 200; with any other status code, with a timeout or a
\* connection error (no response), or when the file cannot be opened it
\* returns False, and none of these ends main with an exception.
C24_UploadTrueIffHttp200 ==
    prog = "upload" =>
        /\ pc \in {"store_return", "record"} =>
               /\ ret <=> status = {HTTP_OK}
               /\ timedOut => ~ret
        /\ pc = "upload_except" => status = {}
        /\ pc = "crashed" => buildFailed # 0 /\ storeReturns = Len(stored)

C24_Witness ==
    /\ prog = "upload"
    /\ pc = "record"
    /\ status = {}
    /\ ~ret
    /\ storeTrue > 0
    /\ failed > 0

\* The density a reader of the dataset computes for a stored value:
\* stored value * RescaleSlope + RescaleIntercept.
Rescaled(d, v) == v * d.RescaleSlope + d.RescaleIntercept

\* The range of a sample with BitsStored bits, signed when
\* PixelRepresentation = 1.
SampleRange(d) ==
    IF d.PixelRepresentation = 1
    THEN -(2 ^ (d.BitsStored - 1))..(2 ^ (d.BitsStored - 1) - 1)
    ELSE 0..(2 ^ d.BitsStored - 1)

\* C25: the density obtained from every stored pixel value with the rescale
\* parameters of the header lies in the band documented for the region of
\* the pixel, and every stored value fits the declared signed 16-bit range.
C25_RescaledInDocumentedBand ==
    pixel # NoPixel =>
        /\ pixel.value \in SampleRange(ds)
        /\ Rescaled(ds, pixel.value) \in
               DocumentedBand(Region(geom, pixel.x, pixel.y))

----------------------------------------------------------------------------
RequiredKeys == {"summary", "findings", "recommendations", "ai_confidence"}

\* The brace-delimited spans of a text, and those that are JSON documents.
BraceSpans(t) ==
    {SubSeq(t, i, j) : <<i, j>> \in
        {ij \in (1..Len(t)) \X (1..Len(t)) :
            ij[1] < ij[2] /\ t[ij[1]] = "{" /\ t[ij[2]] = "}"}}

JsonSpans(t) == {sp \in BraceSpans(t) : JsonLoadsOk(sp)}

IsLowFallback(v) == v.findings = <<>> /\ v.ai_confidence = "low"

\* C27: parse_ai_response returns for every argument and never raises; the
\* result has the keys summary, findings, recommendations and ai_confidence;
\* it is the parsed object when the text has a brace-delimited span that is
\* JSON, the fallback with one "general" finding holding the raw text when
\* the text has no brace-delimited span, and the fallback with no findings
\* and ai_confidence "low" when the span is no JSON or the argument is no
\* string.
C27_ParseAlwaysStructured ==
    parse_out # Pending =>
        /\ parse_out.state = "returned"
        /\ RequiredKeys \subseteq DOMAIN parse_out.value
        /\ IF response_text.type # "str" THEN IsLowFallback(parse_out.value)
           ELSE IF JsonSpans(response_text.text) # {}
                THEN \E sp \in JsonSpans(response_text.text) :
                         parse_out.value = JsonLoads(sp)
           ELSE IF BraceSpans(response_text.text) = {}
                THEN /\ parse_out.value = GeneralFallback(response_text.text)
                     /\ Len(parse_out.value.findings) = 1
                     /\ parse_out.value.findings[1].category = "general"
                     /\ parse_out.value.findings[1].description = response_text.text
           ELSE IsLowFallback(parse_out.value)

----------------------------------------------------------------------------
(* machine_test.py                                                          *)

Logged(log, test) == \E i \in 1..Len(log) : log[i] = test

SentBy(by) == \E i \in 1..Len(sent) : sent[i].by = by

DeleteRequests == {i \in 1..Len(sent) : sent[i].method = "DELETE"}

\* C28: in run_all_tests the reported passed_tests + failed_tests equals
\* total_tests for every combination of test outcomes (pass, fail, exception
\* raised by a test): after each test of the loop, the tests counted as
\* passed and the entries of failed_tests together are the tests run so far.
C28_PassedPlusFailedIsTotal ==
    /\ pc = "suite_test" => passed + Len(failed_tests) = test_idx - 1
    /\ results # NoResults =>
           results.passed_tests + results.failed_tests = results.total_tests

C28_Witness ==
    /\ results # NoResults
    /\ results.passed_tests > 0
    /\ results.failed_tests > 0
    /\ Len(test_results) = Len(Tests)

CreateFailed == Logged(failed_tests, "create")

\* C30: whenever machine creation did not yield a machine ID, the QR-code
\* test, the DICOM-connection test and the delete test each fail without
\* sending a request, at most 3 of the 7 tests pass, the suite is not
\* reported as functional and the exit status is non-zero.
C30_NoMachineIdNoRequests ==
    CreateFailed =>
        /\ created_machine_id = NoMachine
        /\ ~SentBy("qr") /\ ~SentBy("dicom") /\ ~SentBy("delete")
        /\ passed <= 3
        /\ results # NoResults =>
               /\ Logged(failed_tests, "qr")
               /\ Logged(failed_tests, "dicom")
               /\ Logged(failed_tests, "delete")
               /\ results.passed_tests <= 3
        /\ machine_status # "functional"
        /\ pc = "suite_done" => exit_code # 0

C30_Witness ==
    /\ CreateFailed
    /\ pc = "suite_done"
    /\ raised = "none"
    /\ results.passed_tests = 3
    /\ Logged(failed_tests, "delete")

============================================================================
